---- MODULE Spec2Model ----
(***************************************************************************)
(* Model of contrib/pylib/whence.py (the WHENCE manifest parser and its    *)
(* YAML dump) and of the driver script contrib/whence2yaml.py.             *)
(*                                                                         *)
(* A Python str is modelled as a sequence of one-character strings, so     *)
(* that rstrip, strip, split, partition, startswith and the regular        *)
(* expression are computed character by character.  The empty str and the  *)
(* empty list are both <<>>, which are both falsy in Python.               *)
(***************************************************************************)
EXTENDS Integers, Sequences, FiniteSets, TLC

(***************************************************************************)
(* Bounds of the model.                                                    *)
(***************************************************************************)
\* longest manifest built from CoreLines
MaxLines == 4
\* longest value of a generated "Link:" line
MaxLinkVal == 6
\* longest value of a generated "Driver:" line
MaxDriverVal == 5
\* most calls of load_whence on one Whence object
MaxLoads == 2

(***************************************************************************)
(* Python str methods, on sequences of characters.                         *)
(***************************************************************************)
\* the characters str.strip() and str.rstrip() remove (those the model uses)
Whitespace == {" ", "\t"}

\* None, as bound to key and val for a line without ":"
None == <<"None">>

Min(S) == CHOOSE x \in S : \A y \in S : x <= y

RECURSIVE str_rstrip(_)
\* line.rstrip()
str_rstrip(s) ==
    IF s = <<>> THEN s
    ELSE IF s[Len(s)] \in Whitespace THEN str_rstrip(SubSeq(s, 1, Len(s) - 1))
    ELSE s

RECURSIVE str_lstrip(_)
str_lstrip(s) ==
    IF s = <<>> THEN s
    ELSE IF s[1] \in Whitespace THEN str_lstrip(Tail(s))
    ELSE s

\* val.strip()
str_strip(s) == str_lstrip(str_rstrip(s))

RECURSIVE chars_rstrip(_, _)
chars_rstrip(s, chars) ==
    IF s = <<>> THEN s
    ELSE IF s[Len(s)] \in chars THEN chars_rstrip(SubSeq(s, 1, Len(s) - 1), chars)
    ELSE s

RECURSIVE chars_lstrip(_, _)
chars_lstrip(s, chars) ==
    IF s = <<>> THEN s
    ELSE IF s[1] \in chars THEN chars_lstrip(Tail(s), chars)
    ELSE s

\* desc.strip(" -"): removes the characters from both ends
chars_strip(s, chars) == chars_lstrip(chars_rstrip(s, chars), chars)

\* s.startswith(p)
startswith(s, p) == Len(s) >= Len(p) /\ SubSeq(s, 1, Len(p)) = p

\* s.find(sub) + 1: the first position where sub occurs in s, 0 when it does not
find(s, sub) ==
    LET at == {i \in 1..(Len(s) - Len(sub) + 1) : SubSeq(s, i, i + Len(sub) - 1) = sub}
    IN  IF at = {} THEN 0 ELSE Min(at)

\* sub in s
contains(s, sub) == find(s, sub) > 0

\* s.split(sep, 1) of a string that contains sep: <<before, after>>
split1(s, sep) ==
    LET p == find(s, sep)
    IN  <<SubSeq(s, 1, p - 1), SubSeq(s, p + Len(sep), Len(s))>>

\* s.partition(sep): <<before, sep, after>>, or <<s, "", "">> without sep
partition(s, sep) ==
    LET p == find(s, sep)
    IN  IF p = 0 THEN <<s, <<>>, <<>>>>
        ELSE <<SubSeq(s, 1, p - 1), sep, SubSeq(s, p + Len(sep), Len(s))>>

(***************************************************************************)
(* Literals of the source.                                                 *)
(***************************************************************************)
Colon == <<":">>
Space == <<" ">>
Dashes == <<"-", "-", "-", "-", "-", "-", "-", "-", "-", "-">>
Arrow == <<" ", "-", ">", " ">>
Placeholder == <<"-", "-">>
kDriver == <<"D", "r", "i", "v", "e", "r">>
kFile == <<"F", "i", "l", "e">>
kRawFile == <<"R", "a", "w", "F", "i", "l", "e">>
kVersion == <<"V", "e", "r", "s", "i", "o", "n">>
kLink == <<"L", "i", "n", "k">>
kSource == <<"S", "o", "u", "r", "c", "e">>
kInfo == <<"I", "n", "f", "o">>
kOrigin == <<"O", "r", "i", "g", "i", "n">>
kLicence == <<"L", "i", "c", "e", "n", "c", "e">>
kLicense == <<"L", "i", "c", "e", "n", "s", "e">>
ForDetails == <<" ", "f", "o", "r", " ", "d", "e", "t", "a", "i", "l", "s">>
LICEN == <<"L", "I", "C", "E", "N">>

\* the search with the pattern "(LICENCE\.[^ ]+) for details"
re_search_c(line) ==
    LET n == Len(line)
        RunEnd(p) == Min({j \in p..n : j = n \/ line[j + 1] = " "})
        Match(i) ==
            /\ i + 8 <= n
            /\ SubSeq(line, i, i + 7) = LICEN \o <<"C", "E", ".">>
            /\ line[i + 8] # " "
            /\ LET j == RunEnd(i + 8)
               IN  /\ j + Len(ForDetails) <= n
                   /\ SubSeq(line, j + 1, j + Len(ForDetails)) = ForDetails
        at == {i \in 1..n : Match(i)}
    IN  IF at = {} THEN None
        ELSE SubSeq(line, Min(at), RunEnd(Min(at) + 8))

\* re.search(r"(LICEN[CS]E\.[^ ]+) for details", line): group(1), or None.
\* [^ ]+ is followed by a space, so it is the whole run of non-space
\* characters after the dot; the leftmost start that matches wins.
re_search(line) ==
    LET n == Len(line)
        \* last position of the run of non-space characters that starts at p
        RunEnd(p) == Min({j \in p..n : j = n \/ line[j + 1] = " "})
        Match(i) ==
            /\ i + 8 <= n
            /\ SubSeq(line, i, i + 4) = LICEN
            /\ line[i + 5] \in {"C", "S"}
            /\ line[i + 6] = "E"
            /\ line[i + 7] = "."
            /\ line[i + 8] # " "
            /\ LET j == RunEnd(i + 8)
               IN  /\ j + Len(ForDetails) <= n
                   /\ SubSeq(line, j + 1, j + Len(ForDetails)) = ForDetails
        at == {i \in 1..n : Match(i)}
    IN  IF at = {} THEN None
        ELSE SubSeq(line, Min(at), RunEnd(Min(at) + 8))

(***************************************************************************)
(* The data classes.                                                       *)
(***************************************************************************)
\* Entry(type=..., path=..., target=...), the other fields at their defaults
Entry(type, path, target) ==
    [type |-> type, path |-> path, target |-> target, sources |-> <<>>,
     version |-> <<>>, info |-> <<>>, origin |-> <<>>]

\* Section()
Section ==
    [driver |-> <<>>, module |-> <<>>, description |-> <<>>, licence |-> <<>>,
     licence_file |-> <<>>, notes |-> <<>>, entries |-> <<>>]

\* the parse states of load_whence
HEADER == 0
SECTION == 1
NOTES == 2
LICENCE == 3

\* a local variable of load_whence that no statement has bound yet
Unbound == 0
UnboundEntry == <<0, 0>>

(***************************************************************************)
(* strip(obj): [raised |-> TRUE] stands for the IndexError of obj[0] or    *)
(* obj[-1] on a list the loop has emptied.                                 *)
(***************************************************************************)
RECURSIVE strip_leading(_)
\* while obj[0] == "": obj = obj[1:]
strip_leading(obj) ==
    IF obj = <<>> THEN [raised |-> TRUE, value |-> obj]
    ELSE IF obj[1] = <<>> THEN strip_leading(Tail(obj))
    ELSE [raised |-> FALSE, value |-> obj]

RECURSIVE strip_trailing(_)
\* while obj[-1] == "": obj = obj[:-1]
strip_trailing(obj) ==
    IF obj = <<>> THEN [raised |-> TRUE, value |-> obj]
    ELSE IF obj[Len(obj)] = <<>> THEN strip_trailing(SubSeq(obj, 1, Len(obj) - 1))
    ELSE [raised |-> FALSE, value |-> obj]

\* strip without its second loop
strip_leading_only(obj) ==
    IF obj = <<>> THEN [raised |-> FALSE, value |-> obj] ELSE strip_leading(obj)

strip(obj) ==
    IF obj = <<>> THEN [raised |-> FALSE, value |-> obj]
    ELSE LET lead == strip_leading(obj)
         IN  IF lead.raised THEN lead ELSE strip_trailing(lead.value)

(***************************************************************************)
(* The manifests the model reads.                                          *)
(***************************************************************************)
SeqsUpTo(S, n) == UNION {[1..k -> S] : k \in 0..n}

Keyed(key, val) == key \o Colon \o Space \o val

FileA == Keyed(kFile, <<"a">>)

\* the lines of the manifests of up to MaxLines lines
CoreLines ==
    { Dashes,
      Keyed(kDriver, <<"m", " ", "-", " ", "d">>),
      FileA,
      Keyed(kLink, <<"a", " ", "-", ">", " ", "b">>),
      Keyed(kVersion, <<"1">>),
      Keyed(kLicence, <<"G">>),
      <<>>,
      <<"n">> }

\* further lines, each read after every prefix and before every suffix below
ExtraLines ==
    { Keyed(kRawFile, <<"r">>),
      Keyed(kSource, <<"s">>),
      Keyed(kInfo, <<"i">>),
      Keyed(kOrigin, <<"o">>),
      kLicence \o Colon,
      Keyed(kLicense, <<"S", "e", "e", " ", "L", "I", "C", "E", "N", "S", "E", ".", "x">>
                      \o ForDetails \o <<".">>),
      Keyed(kLicence, <<"L", "I", "C", "E", "N", "C", "E", ".">> \o ForDetails),
      \* a key no recognizer knows, a key in the wrong case, a label without ":"
      Keyed(<<"N", "B">>, <<"x">>),
      Keyed(<<"f", "i", "l", "e">>, <<"a">>),
      kFile,
      \* white space only, trailing white space, white space before the label
      <<" ", "\t">>,
      <<"n", " ">>,
      Space \o FileA,
      \* a delimiter line that carries a label as well
      Dashes \o <<"-">> \o FileA,
      \* free text that names a licence file
      <<"L", "I", "C", "E", "N", "C", "E", ".", "z">> \o ForDetails }

\* a Licence line that names a licence file
LicenceY == Keyed(kLicence, <<"L", "I", "C", "E", "N", "C", "E", ".", "y">> \o ForDetails)

Prefixes ==
    { <<>>, <<Dashes>>, <<Dashes, FileA>>, <<Dashes, FileA, Dashes>>, <<Dashes, LicenceY>> }
Suffixes == { <<>>, <<FileA>>, <<<<>>, <<"n">>>>, <<Keyed(kSource, <<"t">>), <<"n">>>> }

LinkAlphabet == {"a", " ", "-", ">"}
DriverAlphabet == {"a", " ", "-", "\t"}

Manifests ==
    SeqsUpTo(CoreLines, MaxLines)
    \cup {p \o <<l>> \o q : p \in Prefixes, l \in ExtraLines, q \in Suffixes}
    \cup {<<Dashes, kLink \o Colon \o v>> : v \in SeqsUpTo(LinkAlphabet, MaxLinkVal)}
    \cup {<<Dashes, kDriver \o Colon \o v>> : v \in SeqsUpTo(DriverAlphabet, MaxDriverVal)}

(***************************************************************************)
(* State.                                                                  *)
(***************************************************************************)
VARIABLES
    whence_file,  \* the lines of the file at the path given to load_whence
    pc,           \* "new", "loop", "loaded", "saved" or "raised"
    lineno,       \* the number of lines the for loop has consumed
    whence_type,  \* the parse state
    section,      \* the local section: an index into sections, or Unbound
    entry,        \* the local entry: <<section index, entry index>>, or UnboundEntry
    header,       \* self.header
    sections,     \* self.sections
    err,          \* the exception that ended the run, "" when none
    remove_empty, \* the argument of the last save_yaml
    yaml_out,     \* what was dumped to the output file: <<>> or <<d>>
    loads,        \* the number of calls of load_whence so far
    once          \* <<>>, or <<the header and sections the first call left>>

vars == <<whence_file, pc, lineno, whence_type, section, entry, header, sections,
          err, remove_empty, yaml_out, loads, once>>

\* Whence(), and a manifest on disk
Init ==
    /\ whence_file \in Manifests
    /\ pc = "new"
    /\ lineno = 0
    /\ whence_type = HEADER
    /\ section = Unbound
    /\ entry = UnboundEntry
    /\ header = <<>>
    /\ sections = <<>>
    /\ err = ""
    /\ remove_empty = FALSE
    /\ yaml_out = <<>>
    /\ loads = 0
    /\ once = <<>>

(***************************************************************************)
(* load_whence: the statements before the loop.                            *)
(***************************************************************************)
LoadWhence ==
    /\ pc \in {"new", "loaded"}
    /\ loads < MaxLoads
    /\ loads' = loads + 1
    /\ pc' = "loop"
    /\ sections' = <<>>
    /\ whence_type' = HEADER
    /\ lineno' = 0
    /\ section' = Unbound
    /\ entry' = UnboundEntry
    /\ UNCHANGED <<whence_file, header, err, remove_empty, yaml_out, once>>

(***************************************************************************)
(* load_whence: one iteration of the for loop, one action per branch.      *)
(***************************************************************************)
InLoop == pc = "loop" /\ lineno < Len(whence_file)

\* line = line.rstrip()
Line == str_rstrip(whence_file[lineno + 1])

\* key, val of the line
Key == IF contains(Line, Colon) THEN split1(Line, Colon)[1] ELSE None
Val == IF contains(Line, Colon) THEN str_strip(split1(Line, Colon)[2]) ELSE None

\* the line is the ten dashes and nothing else
IsDelimiterExact == Line = Dashes

\* line.startswith("----------")
IsDelimiter == startswith(Line, Dashes)

RecognizedKeys ==
    {kDriver, kFile, kRawFile, kVersion, kLink, kSource, kInfo, kOrigin, kLicence, kLicense}

\* the branch ends in "continue"
Continue(wt, sec, ent, hdr, secs) ==
    /\ lineno' = lineno + 1
    /\ whence_type' = wt
    /\ section' = sec
    /\ entry' = ent
    /\ header' = hdr
    /\ sections' = secs
    /\ UNCHANGED <<whence_file, pc, err, remove_empty, yaml_out, loads, once>>

\* an exception leaves load_whence; the object keeps what was stored so far
Raise(e) ==
    /\ pc' = "raised"
    /\ err' = e
    /\ UNCHANGED <<whence_file, lineno, whence_type, section, entry, header, sections,
                   remove_empty, yaml_out, loads, once>>

\* the delimiter branch without "whence_type = SECTION"
DelimiterKeepsState ==
    /\ InLoop
    /\ IsDelimiter
    /\ Continue(whence_type, Len(sections) + 1, entry, header, Append(sections, Section))

Delimiter ==
    /\ InLoop
    /\ IsDelimiter
    /\ Continue(SECTION, Len(sections) + 1, entry, header, Append(sections, Section))

\* the description trimmed on the left only
DriverSplitLstrip(val) ==
    IF contains(val, Space)
    THEN [module |-> split1(val, Space)[1],
          description |-> chars_lstrip(split1(val, Space)[2], {" ", "-"})]
    ELSE [module |-> val, description |-> <<>>]

\* module and description of a Driver value
DriverSplit(val) ==
    IF contains(val, Space)
    THEN [module |-> split1(val, Space)[1],
          description |-> chars_strip(split1(val, Space)[2], {" ", "-"})]
    ELSE [module |-> val, description |-> <<>>]

Driver ==
    /\ InLoop
    /\ ~IsDelimiter
    /\ Key = kDriver
    /\ IF section = Unbound THEN Raise("UnboundLocalError")
       ELSE Continue(whence_type, section, entry, header,
                [sections EXCEPT ![section].driver = Val,
                                 ![section].module = DriverSplit(Val).module,
                                 ![section].description = DriverSplit(Val).description])

\* the entry put in front of the list
PrependEntry(secs, sec, e) == [secs EXCEPT ![sec].entries = <<e>> \o @]

\* section.entries.append(entry)
AppendEntry(secs, sec, e) == [secs EXCEPT ![sec].entries = Append(@, e)]

File ==
    /\ InLoop
    /\ ~IsDelimiter
    /\ Key \in {kFile, kRawFile}
    /\ IF section = Unbound THEN Raise("UnboundLocalError")
       ELSE Continue(whence_type, section,
                <<section, Len(sections[section].entries) + 1>>, header,
                AppendEntry(sections, section, Entry(Key, Val, <<>>)))

\* entry.<field> = val
SetEntryField(secs, ent, fld, val) ==
    [secs EXCEPT ![ent[1]].entries[ent[2]][fld] = val]

Version ==
    /\ InLoop
    /\ ~IsDelimiter
    /\ Key = kVersion
    /\ IF entry = UnboundEntry THEN Raise("UnboundLocalError")
       ELSE Continue(whence_type, section, entry, header,
                SetEntryField(sections, entry, "version", Val))

\* the value split on "->", without the spaces around it
LinkSplitBare(val) ==
    [path |-> partition(val, <<"-", ">">>)[1], target |-> partition(val, <<"-", ">">>)[3]]

\* path, _, target = val.partition(" -> ")
LinkSplit(val) == [path |-> partition(val, Arrow)[1], target |-> partition(val, Arrow)[3]]

Link ==
    /\ InLoop
    /\ ~IsDelimiter
    /\ Key = kLink
    /\ IF section = Unbound THEN Raise("UnboundLocalError")
       ELSE Continue(whence_type, section,
                <<section, Len(sections[section].entries) + 1>>, header,
                AppendEntry(sections, section,
                            Entry(Key, LinkSplit(Val).path, LinkSplit(Val).target)))

Source ==
    /\ InLoop
    /\ ~IsDelimiter
    /\ Key = kSource
    /\ IF entry = UnboundEntry THEN Raise("UnboundLocalError")
       ELSE Continue(whence_type, section, entry, header,
                [sections EXCEPT ![entry[1]].entries[entry[2]].sources = Append(@, Val)])

Info ==
    /\ InLoop
    /\ ~IsDelimiter
    /\ Key = kInfo
    /\ IF entry = UnboundEntry THEN Raise("UnboundLocalError")
       ELSE Continue(whence_type, section, entry, header,
                SetEntryField(sections, entry, "info", Val))

Origin ==
    /\ InLoop
    /\ ~IsDelimiter
    /\ Key = kOrigin
    /\ IF entry = UnboundEntry THEN Raise("UnboundLocalError")
       ELSE Continue(whence_type, section, entry, header,
                SetEntryField(sections, entry, "origin", Val))

\* val, without the placeholder
LicenceValueRaw(val) == val

\* val or "--"
LicenceValue(val) == IF val = <<>> THEN Placeholder ELSE val

Licence ==
    /\ InLoop
    /\ ~IsDelimiter
    /\ Key \in {kLicence, kLicense}
    /\ IF section = Unbound THEN Raise("UnboundLocalError")
       ELSE Continue(LICENCE, section, entry, header,
                [sections EXCEPT
                    ![section].licence = Append(@, LicenceValue(Val)),
                    ![section].licence_file =
                        IF re_search(Line) = None THEN @ ELSE re_search(Line)])

\* the fallback reached whatever the key is
FreeTextAnyKey == InLoop /\ ~IsDelimiter

\* none of the branches above took the line
FreeText == InLoop /\ ~IsDelimiter /\ Key \notin RecognizedKeys

HeaderText ==
    /\ FreeText
    /\ whence_type = HEADER
    /\ Continue(whence_type, section, entry, Append(header, Line), sections)

\* only the first half of the condition
TakesNoteInNotes(wt, line) == wt = NOTES

\* the condition with "whence_type != HEADER and line" as its second half
TakesNoteAfterLicence(wt, line) == wt = NOTES \/ (wt \in {SECTION, LICENCE} /\ line # <<>>)

\* the condition without "and line"
TakesNoteAlsoBlank(wt, line) == wt = NOTES \/ wt = SECTION

\* whence_type == NOTES or (whence_type == SECTION and line)
TakesNote(wt, line) == wt = NOTES \/ (wt = SECTION /\ line # <<>>)

NotesText ==
    /\ FreeText
    /\ whence_type # HEADER
    /\ TakesNote(whence_type, Line)
    /\ Continue(NOTES, section, entry, header,
                [sections EXCEPT ![section].notes = Append(@, Line)])

LicenceText ==
    /\ FreeText
    /\ whence_type # HEADER
    /\ ~TakesNote(whence_type, Line)
    /\ whence_type = LICENCE
    /\ Continue(whence_type, section, entry, header,
                [sections EXCEPT ![section].licence = Append(@, Line)])

\* if line: raise Exception(f"Failed to parse line: {line}"); else next line
FallThrough ==
    /\ FreeText
    /\ whence_type # HEADER
    /\ ~TakesNote(whence_type, Line)
    /\ whence_type # LICENCE
    /\ IF Line # <<>> THEN Raise("Exception")
       ELSE Continue(whence_type, section, entry, header, sections)

(***************************************************************************)
(* load_whence: the statements after the loop.                             *)
(***************************************************************************)
RECURSIVE StripSections(_, _)
\* for s in self.sections: s.licence = strip(s.licence); s.notes = strip(s.notes)
\* from section k on; an IndexError keeps the assignments made before it
StripSections(secs, k) ==
    IF k > Len(secs) THEN [raised |-> FALSE, value |-> secs]
    ELSE LET lic == strip(secs[k].licence)
             nts == strip(secs[k].notes)
         IN  IF lic.raised THEN [raised |-> TRUE, value |-> secs]
             ELSE IF nts.raised
                  THEN [raised |-> TRUE, value |-> [secs EXCEPT ![k].licence = lic.value]]
                  ELSE StripSections([secs EXCEPT ![k].licence = lic.value,
                                                  ![k].notes = nts.value], k + 1)

StripPass ==
    /\ pc = "loop"
    /\ lineno = Len(whence_file)
    /\ LET h == strip(header)
           r == StripSections(sections, 1)
       IN  IF h.raised THEN Raise("IndexError")
           ELSE /\ header' = h.value
                /\ sections' = r.value
                /\ pc' = IF r.raised THEN "raised" ELSE "loaded"
                /\ err' = IF r.raised THEN "IndexError" ELSE err
                /\ once' = IF once = <<>> /\ ~r.raised
                            THEN <<[header |-> h.value, sections |-> r.value]>>
                            ELSE once
                /\ UNCHANGED <<whence_file, lineno, whence_type, section, entry,
                               remove_empty, yaml_out, loads>>

(***************************************************************************)
(* save_yaml.                                                              *)
(***************************************************************************)
\* for key in list(m): if not m[key]: del m[key]
RemoveEmpty(m) == [k \in {x \in DOMAIN m : m[x] # <<>>} |-> m[k]]

\* the section loop without its inner loop over the entries
RemoveEmptySectionOnly(s) ==
    LET s1 == RemoveEmpty(s)
    IN  [raised |-> "entries" \notin DOMAIN s1, value |-> s1]

\* the body of "for s in d['sections']" on one section mapping; s["entries"]
\* raises KeyError when the first loop has deleted the key
RemoveEmptySection(s) ==
    LET s1 == RemoveEmpty(s)
    IN  IF "entries" \notin DOMAIN s1 THEN [raised |-> TRUE, value |-> s1]
        ELSE [raised |-> FALSE,
              value |-> [s1 EXCEPT !["entries"] =
                            [j \in 1..Len(s1["entries"]) |-> RemoveEmpty(s1["entries"][j])]]]

\* the dump that removes the empty items whatever the argument
DictRemoveAlways(remove) ==
    [header |-> header,
     sections |-> [k \in 1..Len(sections) |-> RemoveEmptySection(sections[k]).value]]

\* d = asdict(self), after the "if remove_empty" block
Dict(remove) ==
    [header |-> header,
     sections |-> IF remove
                  THEN [k \in 1..Len(sections) |-> RemoveEmptySection(sections[k]).value]
                  ELSE sections]

SaveYaml(remove, writable) ==
    /\ pc = "loaded"
    /\ remove_empty' = remove
    /\ IF remove /\ \E k \in 1..Len(sections) : RemoveEmptySection(sections[k]).raised
       THEN pc' = "raised" /\ err' = "KeyError" /\ yaml_out' = yaml_out
       ELSE IF ~writable
       THEN pc' = "raised" /\ err' = "OSError" /\ yaml_out' = yaml_out
       ELSE pc' = "saved" /\ err' = err /\ yaml_out' = <<Dict(remove)>>
    /\ UNCHANGED <<whence_file, lineno, whence_type, section, entry, header, sections,
                   loads, once>>

Next ==
    \/ LoadWhence
    \/ Delimiter
    \/ Driver
    \/ File
    \/ Version
    \/ Link
    \/ Source
    \/ Info
    \/ Origin
    \/ Licence
    \/ HeaderText
    \/ NotesText
    \/ LicenceText
    \/ FallThrough
    \/ StripPass
    \/ \E remove \in BOOLEAN, writable \in BOOLEAN : SaveYaml(remove, writable)

Spec == Init /\ [][Next]_vars

TypeOK ==
    /\ pc \in {"new", "loop", "loaded", "saved", "raised"}
    /\ whence_type \in {HEADER, SECTION, NOTES, LICENCE}
    /\ lineno \in 0..Len(whence_file)
    /\ section \in 0..Len(sections)
    /\ err \in {"", "UnboundLocalError", "IndexError", "KeyError", "OSError", "Exception"}
    /\ Len(yaml_out) <= 1
    /\ loads \in 0..MaxLoads
    /\ Len(once) <= 1

(***************************************************************************)
(* Properties.                                                             *)
(***************************************************************************)
SectionFields ==
    {"driver", "module", "description", "licence", "licence_file", "notes", "entries"}
EntryFields == {"type", "path", "target", "sources", "version", "info", "origin"}

\* C1: save_yaml has no error outcome other than an I/O failure: every call
\* on a parsed document, with remove_empty false or true, either dumps a
\* mapping or fails with the I/O error of an unwritable target.
C1_SaveFailsOnlyOnIO ==
    [][(pc = "loaded" /\ pc' \in {"saved", "raised"})
         => \/ pc' = "saved" /\ Len(yaml_out') = 1
            \/ pc' = "raised" /\ err' = "OSError"]_vars

\* the fields of the mapping m, a dump of the object o with empty fields omitted
OmitsExactlyEmpty(m, o, fields) ==
    /\ DOMAIN m = {f \in fields : o[f] # <<>>}
    /\ \A f \in DOMAIN m : m[f] # <<>>

\* C2: with remove_empty, no Section mapping and no Entry mapping of the dumped
\* mapping has a key with an empty value, every non-empty field is present
\* with its parsed value, and the Document keys header and sections are
\* present even when empty.
C2_OmitEmpty ==
    (pc = "saved" /\ remove_empty) =>
        LET d == yaml_out[1]
        IN  /\ DOMAIN d = {"header", "sections"}
            /\ d.header = header
            /\ Len(d.sections) = Len(sections)
            /\ \A k \in 1..Len(sections) :
                 LET m == d.sections[k]
                     o == sections[k]
                 IN  /\ OmitsExactlyEmpty(m, o, SectionFields)
                     /\ \A f \in DOMAIN m \ {"entries"} : m[f] = o[f]
                     /\ Len(m["entries"]) = Len(o.entries)
                     /\ \A j \in 1..Len(o.entries) :
                          /\ OmitsExactlyEmpty(m["entries"][j], o.entries[j], EntryFields)
                          /\ \A f \in DOMAIN m["entries"][j] :
                               m["entries"][j][f] = o.entries[j][f]

\* C2 witness: a dump with remove_empty of a document with an empty header
\* and a section whose notes are empty and whose entry has only type and path
C2_Witness ==
    /\ pc = "saved"
    /\ remove_empty
    /\ header = <<>>
    /\ \E k \in 1..Len(sections) :
         /\ sections[k].notes = <<>>
         /\ sections[k].driver # <<>>
         /\ \E j \in 1..Len(sections[k].entries) :
              /\ sections[k].entries[j].version = <<>>
              /\ sections[k].entries[j].path # <<>>

\* the list s without its leading and its trailing run of empty lines
Trimmed(s) ==
    LET full == {i \in 1..Len(s) : s[i] # <<>>}
    IN  IF full = {} THEN <<>>
        ELSE SubSeq(s, Min(full), CHOOSE i \in full : \A j \in full : j <= i)

\* the loop has consumed the last line without an exception
LoopDone == pc = "loop" /\ lineno = Len(whence_file)

\* C3: the post-pass trim is total and exact: for every manifest, also one
\* whose lines before the first delimiter are all blank, load_whence
\* completes and header is the raw header lines without the leading and the
\* trailing run of empty lines.
C3_TrimTotalExact ==
    [][LoopDone => (pc' = "loaded" /\ header' = Trimmed(header))]_vars

\* s is empty or begins and ends with a non-empty line
EndsNonBlank(s) == s = <<>> \/ (s[1] # <<>> /\ s[Len(s)] # <<>>)

\* out is a stretch of raw that leaves out only empty lines
KeepsInner(raw, out) ==
    \E a \in 1..(Len(raw) + 1) : \E b \in 0..Len(raw) :
        /\ out = SubSeq(raw, a, b)
        /\ \A i \in 1..Len(raw) : (i < a \/ i > b) => raw[i] = <<>>

\* C4: whenever load_whence completes, header and every section's notes and
\* licence are empty or begin and end with a non-empty line, and the empty
\* lines between two non-empty lines of a sequence are still there.
C4_EndsStrippedInnerKept ==
    [][(pc = "loop" /\ pc' = "loaded")
         => /\ EndsNonBlank(header') /\ KeepsInner(header, header')
            /\ Len(sections') = Len(sections)
            /\ \A k \in 1..Len(sections) :
                 /\ EndsNonBlank(sections'[k].notes)
                 /\ KeepsInner(sections[k].notes, sections'[k].notes)
                 /\ EndsNonBlank(sections'[k].licence)
                 /\ KeepsInner(sections[k].licence, sections'[k].licence)]_vars

\* C4 witness: a loaded header that kept its inner empty line and lost the
\* trailing one
C4_Witness ==
    /\ pc = "loaded"
    /\ Len(whence_file) = 4
    /\ whence_file[4] = <<>>
    /\ Len(header) = 3
    /\ header[2] = <<>>

\* C4 witness for notes and licence of one section
C4_WitnessSection ==
    /\ pc = "loaded"
    /\ \E k \in 1..Len(sections) :
         /\ Len(sections[k].notes) = 1
         /\ Len(sections[k].licence) = 1
         /\ whence_file[Len(whence_file)] = <<>>

\* the local entry is not an entry of the current section
NoEntryInSection == section = Unbound \/ sections[section].entries = <<>>

\* C5: a Version, Source, Info or Origin line read before any File, RawFile
\* or Link line has established a current Entry is malformed input: parse
\* fails with the malformed-line error and no Entry takes the value.
C5_FieldBeforeEntryIsMalformed ==
    [][(InLoop /\ ~IsDelimiter /\ Key \in {kVersion, kSource, kInfo, kOrigin}
          /\ NoEntryInSection)
         => (pc' = "raised" /\ err' = "Exception" /\ sections' = sections)]_vars

\* key of a raw line of the file, None without ":"
KeyOfRaw(raw) ==
    IF contains(str_rstrip(raw), Colon) THEN split1(str_rstrip(raw), Colon)[1] ELSE None

IsDelimiterRaw(raw) == startswith(str_rstrip(raw), Dashes)

\* the position in f of its k-th delimiter line; Len(f) + 1 when it has fewer
DelimiterPos(f, k) ==
    LET at == {p \in 1..Len(f) :
                  /\ IsDelimiterRaw(f[p])
                  /\ Cardinality({q \in 1..p : IsDelimiterRaw(f[q])}) = k}
    IN  IF at = {} THEN Len(f) + 1 ELSE Min(at)

IsEntryKey(key) == key \in {kFile, kRawFile, kLink}

\* the keys of the File:, RawFile: and Link: lines of f between its k-th
\* delimiter and the next one (or the end of f), in the order of the lines
EntryKeysOfSection(f, k) ==
    LET seg == SubSeq(f, DelimiterPos(f, k) + 1, DelimiterPos(f, k + 1) - 1)
    IN  SelectSeq([j \in 1..Len(seg) |-> KeyOfRaw(seg[j])], IsEntryKey)

\* C6: every Section of a parsed Document has as many entries as there are
\* File:, RawFile: and Link: lines between its delimiter and the next (or
\* the end of the input), in the order of those lines, each of that kind.
C6_EntriesMatchLines ==
    pc = "loaded" =>
        \A k \in 1..Len(sections) :
            [j \in 1..Len(sections[k].entries) |-> sections[k].entries[j].type]
                = EntryKeysOfSection(whence_file, k)

\* C6 witness: a parsed document of two sections, the first with two entries
\* of different kinds, the second with none
C6_Witness ==
    /\ pc = "loaded"
    /\ Len(sections) = 2
    /\ Len(sections[1].entries) = 2
    /\ sections[1].entries[1].type = kFile
    /\ sections[1].entries[2].type = kLink
    /\ Len(sections[2].entries) = 0

\* C7: free text in SECTION and NOTES state: a non-empty unkeyed line in
\* SECTION state moves to NOTES and is the first note of the current
\* Section; an empty line in SECTION state is dropped and the state stays
\* SECTION; in NOTES state every unkeyed line, empty or not, is appended to
\* notes and the state stays NOTES.
C7_FreeTextInSectionAndNotes ==
    [][/\ (FreeText /\ whence_type = SECTION /\ Line # <<>>)
            => /\ whence_type' = NOTES
               /\ sections'[section].notes = <<Line>>
       /\ (FreeText /\ whence_type = SECTION /\ Line = <<>>)
            => /\ whence_type' = SECTION
               /\ pc' = "loop"
               /\ sections' = sections
               /\ header' = header
       /\ (FreeText /\ whence_type = NOTES)
            => /\ whence_type' = NOTES
               /\ sections'[section].notes = Append(sections[section].notes, Line)
      ]_vars

\* C7 witness: after a delimiter, a dropped empty line, a first note and an
\* empty line appended to the notes
C7_Witness ==
    /\ pc = "loop"
    /\ lineno = 4
    /\ whence_type = NOTES
    /\ whence_file[2] = <<>>
    /\ sections[section].notes = << <<"n">>, <<>> >>

\* a Link line is read inside a section
LinkLine == InLoop /\ ~IsDelimiter /\ Key = kLink /\ section # Unbound

\* the entry the step has appended to the current section
NewEntry == sections'[section].entries[Len(sections'[section].entries)]

\* C8 as stated: the target of the Link Entry is non-empty whenever the source
\* line contained " -> "; without the separator in the line, target is empty
\* and path is the whole value.
C8_TargetWheneverLineHasArrow ==
    [][LinkLine
         => /\ contains(whence_file[lineno + 1], Arrow) => NewEntry.target # <<>>
            /\ ~contains(whence_file[lineno + 1], Arrow)
                 => (NewEntry.target = <<>> /\ NewEntry.path = Val)]_vars

\* C8 amended: the target of the Link Entry is non-empty whenever the value,
\* trimmed of surrounding white space, contains " -> ": path and target are
\* the non-empty parts of the trimmed value before and after the first
\* occurrence; when the trimmed value has no separator (also when the only
\* " -> " of the line ends it or follows the colon directly), target is empty
\* and path is the whole trimmed value.
C8_TargetWheneverValueHasArrow ==
    [][LinkLine
         => /\ NewEntry.type = kLink
            /\ contains(Val, Arrow)
                 => /\ NewEntry.path \o Arrow \o NewEntry.target = Val
                    /\ Len(NewEntry.path) + 1 = find(Val, Arrow)
                    /\ NewEntry.path # <<>>
                    /\ NewEntry.target # <<>>
            /\ ~contains(Val, Arrow)
                 => (NewEntry.target = <<>> /\ NewEntry.path = Val)]_vars

\* C8 witness: Link entries of both shapes have been read: one with a target,
\* and one whose line had " -> " at the end of the line and got no target
C8_Witness ==
    /\ pc = "loop"
    /\ lineno = 2
    /\ Len(sections) = 1
    /\ Len(sections[1].entries) = 1
    /\ sections[1].entries[1].type = kLink
    /\ sections[1].entries[1].path = <<"a">>
    /\ sections[1].entries[1].target = <<"-">>

\* C8 witness for the line whose separator ends the line
C8_WitnessNoTarget ==
    /\ pc = "loop"
    /\ lineno = 2
    /\ contains(whence_file[2], Arrow)
    /\ Len(sections) = 1
    /\ Len(sections[1].entries) = 1
    /\ sections[1].entries[1].target = <<>>

\* a Driver line is read inside a section
DriverLine == InLoop /\ ~IsDelimiter /\ Key = kDriver /\ section # Unbound

\* the first position of s with a character of chars, Len(s) + 1 when none
FirstOf(s, chars) ==
    LET at == {i \in 1..Len(s) : s[i] \in chars}
    IN  IF at = {} THEN Len(s) + 1 ELSE Min(at)

\* C9 as stated: driver is the full value, module the token before the first
\* white space run, description the remainder with its leading " " and "-"
\* trimmed and otherwise unchanged; without white space, module is the whole
\* value and description is empty.
C9_DescriptionLeftTrimmed ==
    [][DriverLine
         => LET p == FirstOf(Val, Whitespace)
                rest == str_lstrip(SubSeq(Val, p, Len(Val)))
            IN  /\ sections'[section].driver = Val
                /\ sections'[section].module = SubSeq(Val, 1, p - 1)
                /\ sections'[section].description = chars_lstrip(rest, {" ", "-"})]_vars

\* out is s without a leading and a trailing run of characters of chars,
\* and neither begins nor ends with one
TrimmedOf(out, s, chars) ==
    /\ \E a \in 1..(Len(s) + 1) : \E b \in 0..Len(s) :
          /\ out = SubSeq(s, a, b)
          /\ \A i \in 1..Len(s) : (i < a \/ i > b) => s[i] \in chars
    /\ out = <<>> \/ (out[1] \notin chars /\ out[Len(out)] \notin chars)

\* C9 amended: driver is the full trimmed value, module the text before the
\* first space character (a tab does not split), description the text after
\* that space with its leading and its trailing " " and "-" characters
\* trimmed and otherwise unchanged; without a space, module is the whole
\* value and description is empty.
C9_DescriptionTrimmedBothEnds ==
    [][DriverLine
         => LET p == FirstOf(Val, {" "})
                rest == SubSeq(Val, p + 1, Len(Val))
            IN  /\ sections'[section].driver = Val
                /\ sections'[section].module = SubSeq(Val, 1, p - 1)
                /\ TrimmedOf(sections'[section].description, rest, {" ", "-"})]_vars

\* C9 witness: a Driver value with module, separator and a description that
\* ends in "-"
C9_Witness ==
    /\ pc = "loop"
    /\ lineno = 2
    /\ Len(sections) = 1
    /\ sections[1].driver = <<"a", " ", "-", "a", "-">>
    /\ sections[1].module = <<"a">>
    /\ sections[1].description = <<"a">>

\* a Licence or License line is read inside a section
LicenceLine == InLoop /\ ~IsDelimiter /\ Key \in {kLicence, kLicense} /\ section # Unbound

\* C10: a Licence:/License: line inside a section, in any state, moves to
\* LICENCE and appends one element to the licence list of the current
\* Section: the trimmed value, or "--" when the value is empty; every unkeyed
\* line that follows, empty or not, is appended to that list while the state
\* is LICENCE.
C10_LicenceLineAndContinuation ==
    [][/\ LicenceLine
            => /\ whence_type' = LICENCE
               /\ section' = section
               /\ sections'[section].licence =
                      Append(sections[section].licence,
                             IF Val = <<>> THEN Placeholder ELSE Val)
       /\ (FreeText /\ whence_type = LICENCE)
            => /\ whence_type' = LICENCE
               /\ section' = section
               /\ sections'[section].licence = Append(sections[section].licence, Line)
      ]_vars

\* C10 witness: a Licence line without value, then an empty and a non-empty
\* continuation line
C10_Witness ==
    /\ pc = "loop"
    /\ whence_type = LICENCE
    /\ section # Unbound
    /\ sections[section].licence = <<Placeholder, <<>>, <<"n">>>>

\* C10 witness: a Licence line read in NOTES state
C10_WitnessFromNotes ==
    /\ pc = "loop"
    /\ whence_type = LICENCE
    /\ section # Unbound
    /\ sections[section].notes # <<>>
    /\ Len(sections[section].licence) = 2

\* the spans <<i, j>> of line that hold "LICEN[CS]E.<non-space suffix>" and are
\* followed by " for details"
TokenSpans(line) ==
    {ij \in (1..Len(line)) \X (1..Len(line)) :
        LET i == ij[1]
            j == ij[2]
        IN  /\ i + 8 <= j
            /\ SubSeq(line, i, i + 4) = LICEN
            /\ line[i + 5] \in {"C", "S"}
            /\ line[i + 6] = "E"
            /\ line[i + 7] = "."
            /\ \A x \in (i + 8)..j : line[x] # " "
            /\ j + Len(ForDetails) <= Len(line)
            /\ SubSeq(line, j + 1, j + Len(ForDetails)) = ForDetails}

\* the filename token of a line that has one: the leftmost
TokenOf(line) ==
    LET ij == CHOOSE a \in TokenSpans(line) : \A b \in TokenSpans(line) : a[1] <= b[1]
    IN  SubSeq(line, ij[1], ij[2])

\* the token of the last Licence:/License: line with the pattern between the
\* k-th delimiter of f and the next one, "" when there is no such line
LicenceFileOfSection(f, k) ==
    LET seg == SubSeq(f, DelimiterPos(f, k) + 1, DelimiterPos(f, k + 1) - 1)
        hits == {j \in 1..Len(seg) :
                    /\ KeyOfRaw(seg[j]) \in {kLicence, kLicense}
                    /\ TokenSpans(seg[j]) # {}}
    IN  IF hits = {} THEN <<>>
        ELSE TokenOf(seg[CHOOSE j \in hits : \A h \in hits : h <= j])

\* C11: licence_file of a Section is set exactly by the Licence:/License:
\* lines whose whole line contains "LICEN[CS]E.<non-space suffix> for
\* details", to the matched filename token; a Licence line without the
\* pattern and a licence continuation line leave it unchanged, and a Section
\* without a matching Licence line has the empty licence_file.
C11_LicenceFile ==
    pc = "loaded" =>
        \A k \in 1..Len(sections) :
            sections[k].licence_file = LicenceFileOfSection(whence_file, k)

\* C11 witness: a section whose first Licence line named LICENCE.y, followed
\* by a continuation line that names another file and is not taken
C11_Witness ==
    /\ pc = "loaded"
    /\ Len(sections) = 1
    /\ Len(sections[1].licence) >= 2
    /\ TokenSpans(sections[1].licence[2]) # {}
    /\ sections[1].licence_file = <<"L", "I", "C", "E", "N", "C", "E", ".", "y">>

\* C11 witness: the License spelling, and the token without the final "."
C11_WitnessLicense ==
    /\ pc = "loaded"
    /\ \E k \in 1..Len(sections) :
         sections[k].licence_file = <<"L", "I", "C", "E", "N", "S", "E", ".", "x">>

\* the line the loop reads next starts with ten dashes
DashLine == InLoop /\ startswith(whence_file[lineno + 1], Dashes)

\* the number of the first n lines of f that start with ten dashes
DashLines(f, n) == Cardinality({p \in 1..n : startswith(f[p], Dashes)})

\* C12: the delimiter rule comes first in every state: each line that starts
\* with ten dashes, whatever else it contains, sets the state to SECTION and
\* appends one new Section that becomes the current Section; no other line
\* adds or removes a Section, so the Document has one Section per delimiter
\* line, in input order.
C12_DelimiterFirst ==
    [][/\ DashLine
            => /\ pc' = "loop"
               /\ whence_type' = SECTION
               /\ sections' = Append(sections, Section)
               /\ section' = Len(sections')
               /\ header' = header
       /\ (InLoop /\ ~DashLine) => Len(sections') = Len(sections)
       /\ pc = "loop" => Len(sections) = DashLines(whence_file, lineno)
       /\ (pc = "loop" /\ pc' = "loaded")
            => Len(sections') = DashLines(whence_file, Len(whence_file))
      ]_vars

\* C12 witness: in LICENCE state, a line of eleven dashes followed by
\* "File: a" has opened the second Section and added no entry
C12_Witness ==
    /\ pc = "loop"
    /\ lineno = 3
    /\ whence_file[2] = LicenceY
    /\ whence_file[3] = Dashes \o <<"-">> \o FileA
    /\ whence_type = SECTION
    /\ section = 2
    /\ Len(sections) = 2
    /\ sections[2] = Section

\* a line with one of the ten keys is read
KeyedLine == InLoop /\ Key \in RecognizedKeys

\* C13: the parse state governs the fallback only: in every state a line
\* whose key is Driver, File, RawFile, Version, Link, Source, Info, Origin,
\* Licence or License is never appended to header or to notes, and of those
\* keys only Licence and License change the parse state.
C13_KeyedLineNeverFreeText ==
    [][KeyedLine
         => /\ header' = header
            /\ Len(sections') = Len(sections)
            /\ \A k \in 1..Len(sections) : sections'[k].notes = sections[k].notes
            /\ Key \notin {kLicence, kLicense} => whence_type' = whence_type
            /\ (Key \in {kLicence, kLicense} /\ pc' = "loop") => whence_type' = LICENCE
            /\ (Key \in {kFile, kRawFile, kLink} /\ pc' = "loop")
                 => Len(sections'[section].entries) = Len(sections[section].entries) + 1
      ]_vars

\* C13 witness: a File line read in NOTES state has added an entry and left
\* the notes and the state alone
C13_Witness ==
    /\ pc = "loop"
    /\ lineno = 3
    /\ whence_file[3] = FileA
    /\ whence_type = NOTES
    /\ sections[1].notes = << <<"n">> >>
    /\ Len(sections[1].entries) = 1

\* the object a mapping m describes: the fields m has, the defaults otherwise
FromMapping(m, fields) == [f \in fields |-> IF f \in DOMAIN m THEN m[f] ELSE <<>>]

\* the Section a section mapping describes
SectionFromMapping(m) ==
    LET o == FromMapping(m, SectionFields)
    IN  [o EXCEPT !["entries"] =
            [j \in 1..Len(o["entries"]) |-> FromMapping(o["entries"][j], EntryFields)]]

\* C14: lossless structural round trip: the mapping save_yaml dumps with
\* remove_empty false has every field of the Document, of each Section and of
\* each Entry with the parsed value and in the same order, so the Document
\* rebuilt from the mapping equals the original field by field.
C14_RoundTrip ==
    (pc = "saved" /\ ~remove_empty) =>
        LET d == yaml_out[1]
        IN  /\ DOMAIN d = {"header", "sections"}
            /\ d.header = header
            /\ Len(d.sections) = Len(sections)
            /\ \A k \in 1..Len(sections) :
                 /\ DOMAIN d.sections[k] = SectionFields
                 /\ \A f \in SectionFields \ {"entries"} :
                      d.sections[k][f] = sections[k][f]
                 /\ Len(d.sections[k]["entries"]) = Len(sections[k].entries)
                 /\ \A j \in 1..Len(sections[k].entries) :
                      /\ DOMAIN d.sections[k]["entries"][j] = EntryFields
                      /\ \A f \in EntryFields :
                           d.sections[k]["entries"][j][f] = sections[k].entries[j][f]
                 /\ SectionFromMapping(d.sections[k]) = sections[k]

\* C14 witness: a dump without remove_empty of a document with a section
\* with notes and without licence, and an entry with a version
C14_Witness ==
    /\ pc = "saved"
    /\ ~remove_empty
    /\ Len(sections) = 1
    /\ sections[1].notes # <<>>
    /\ sections[1].licence = <<>>
    /\ Len(sections[1].entries) = 1
    /\ sections[1].entries[1].version # <<>>
    /\ sections[1].entries[1].target = <<>>

\* C14 witness: a dump without remove_empty of a section without entries
C14_WitnessNoEntries ==
    /\ pc = "saved"
    /\ ~remove_empty
    /\ Len(sections) = 1
    /\ sections[1].entries = <<>>

\* C15: once a delimiter line has been read, no later line changes a field
\* of an earlier Section or of an Entry of an earlier Section; a Version,
\* Source, Info or Origin line before the first File, RawFile or Link line
\* of a section does not alter the last Entry of a section before it.
C15_EarlierSectionsFrozen ==
    [][InLoop
         => \A k \in 1..Len(sections) : k < section => sections'[k] = sections[k]]_vars

\* C16: the fall-through failure is unreachable: in each of the four states
\* a line that matches no keyed recognizer is appended to header, to notes or
\* to licence, or is an empty line dropped in SECTION state; load_whence
\* never raises "Failed to parse line".
C16_NoFallThroughFailure ==
    [][/\ err' # "Exception"
       /\ FreeText
            => /\ pc' = "loop"
               /\ lineno' = lineno + 1
               /\ \/ header' = Append(header, Line) /\ sections' = sections
                  \/ /\ header' = header
                     /\ sections' =
                          [sections EXCEPT ![section].notes = Append(@, Line)]
                  \/ /\ header' = header
                     /\ sections' =
                          [sections EXCEPT ![section].licence = Append(@, Line)]
                  \/ /\ Line = <<>>
                     /\ whence_type = SECTION
                     /\ header' = header
                     /\ sections' = sections
      ]_vars

\* C16 witness: an empty line after a delimiter has reached the last test of
\* the loop body and was dropped, and a non-empty line was read after it
C16_Witness ==
    /\ pc = "loop"
    /\ lineno = 3
    /\ IsDelimiterRaw(whence_file[1])
    /\ str_rstrip(whence_file[2]) = <<>>
    /\ whence_type = NOTES
    /\ sections[1].notes = << <<"n">> >>
    /\ err = ""

\* C17: LICENCE state is left only through a delimiter: a keyed line such as
\* File, Link or Version leaves the state LICENCE, an unkeyed line read in
\* LICENCE state is appended to licence, and no line read in LICENCE state
\* adds to the notes of any Section.
C17_LicenceLeftOnlyByDelimiter ==
    [][(InLoop /\ whence_type = LICENCE)
         => /\ pc' = "loop" =>
                 \/ whence_type' = LICENCE /\ Len(sections') = Len(sections)
                 \/ DashLine /\ whence_type' = SECTION
            /\ \A k \in 1..Len(sections) : sections'[k].notes = sections[k].notes
            /\ (Key \notin RecognizedKeys /\ ~DashLine)
                 => sections'[section].licence = Append(sections[section].licence, Line)
      ]_vars

\* C17 witness: after a Licence line and a File line, a line of text went to
\* licence, not to notes, and the state is still LICENCE
C17_Witness ==
    /\ pc = "loop"
    /\ lineno = 4
    /\ whence_file[3] = FileA
    /\ whence_type = LICENCE
    /\ sections[1].notes = <<>>
    /\ sections[1].licence = << <<"G">>, <<"n">> >>
    /\ Len(sections[1].entries) = 1

\* C18: loading is repeatable on one Whence object: a second load_whence of
\* the same manifest leaves the header and the sections the first one left.
C18_ReloadSame ==
    (pc = "loaded" /\ loads = 2) =>
        /\ header = once[1].header
        /\ sections = once[1].sections

\* the lines of f before its first line that starts with ten dashes, each
\* without its trailing white space
LinesBeforeFirstDash(f) ==
    LET at == {p \in 1..Len(f) : startswith(f[p], Dashes)}
        n == IF at = {} THEN Len(f) ELSE Min(at) - 1
    IN  [p \in 1..n |-> str_rstrip(f[p])]

\* C19: HEADER is the initial state only: once a delimiter line has been
\* read the state is SECTION, NOTES or LICENCE and stays so, no later line
\* is appended to header, and every header line is an unkeyed line read
\* before the first delimiter, in input order.
C19_HeaderOnlyInitial ==
    [][/\ InLoop
            => /\ Len(sections) > 0 <=> whence_type # HEADER
               /\ (whence_type # HEADER /\ pc' = "loop") => whence_type' # HEADER
               /\ whence_type # HEADER => header' = header
               /\ header' # header
                    => /\ Key \notin RecognizedKeys
                       /\ DashLines(whence_file, lineno + 1) = 0
                       /\ header' = Append(header, Line)
       /\ (pc = "loaded" /\ loads = 1)
            => header = Trimmed(LinesBeforeFirstDash(whence_file))
      ]_vars

\* C19 witness: a header line, a delimiter and two lines of text, which went
\* to the notes
C19_Witness ==
    /\ pc = "loop"
    /\ lineno = 4
    /\ header = << <<"n">> >>
    /\ whence_type = NOTES
    /\ Len(sections) = 1
    /\ sections[1].notes = << <<"n">>, <<"n">> >>

====
